---- MODULE Spec2Model ----
(***************************************************************************)
(* Model of operator/src/main/resources/scripts/start-server.py, the WLST  *)
(* script that starts a WebLogic server through the node manager.          *)
(*                                                                         *)
(* The script is one sequential process.  pc names the statement that runs *)
(* next; every statement whose outcome the script does not control (a file *)
(* operation, base64 decoding of the file's text, a node manager command)  *)
(* is an action whose outcome is chosen among the outcomes it can have.    *)
(* trace records, in order, every operation visible outside the script:    *)
(* file opens/reads/writes/closes, node manager commands, printed lines,   *)
(* and the interpreter's traceback for an exception nobody catches.        *)
(*                                                                         *)
(* Text is a sequence of ASCII codes, binary data a sequence of 0..255.    *)
(*                                                                         *)
(* The script runs under WLST, which supplies the names the script uses    *)
(* without importing or defining them: os, nmConnect, nmStart,             *)
(* nmDisconnect, WLSTException and exit.  A node manager command either    *)
(* returns or raises; WLST documents WLSTException as the exception of a   *)
(* failed command, nmDisconnect included.                                  *)
(***************************************************************************)
EXTENDS Integers, Sequences, FiniteSets, TLC

VARIABLES
  environ,       \* os.environ: variable name -> value, or None when unset
  keyFile,       \* /weblogic-operator/introspector/userKeyNodeManager.secure
  tmpFile,       \* /tmp/userKeyNodeManager.secure.bin
  pc,            \* the statement that runs next
  domain_uid, server_name, domain_name, domain_path, service_name,
  contents,      \* text read from the key file
  decoded,       \* its base64 decoding
  e,             \* the WLSTException bound by the except clause
  trace,         \* the operations performed so far, in order
  exitCode       \* the process exit status; NotExited while running

scriptVars == <<domain_uid, server_name, domain_name, domain_path, service_name>>
dataVars   == <<contents, decoded>>
fileVars   == <<keyFile, tmpFile>>
vars == <<environ, keyFile, tmpFile, pc, domain_uid, server_name, domain_name,
          domain_path, service_name, contents, decoded, e, trace, exitCode>>

-----------------------------------------------------------------------------
(* Bounds of the checked inputs *)

\* longest secret (in bytes) whose encodings are tried as key file text
MaxLen == 3

-----------------------------------------------------------------------------
(* Names and fixed values of the script *)

None == "None"
NotExited == 0 - 1

KEY_PATH    == "/weblogic-operator/introspector/userKeyNodeManager.secure"
TMP_PATH    == "/tmp/userKeyNodeManager.secure.bin"
CONFIG_PATH == "/weblogic-operator/introspector/userConfigNodeManager.secure"

EnvNames == <<"DOMAIN_UID", "SERVER_NAME", "DOMAIN_NAME", "DOMAIN_HOME", "SERVICE_NAME">>

\* the statement that reads each variable, and the statement after the five
EnvPc    == <<"domain_uid", "server_name", "domain_name", "domain_path", "service_name">>

EnvVarSet == {EnvNames[i] : i \in 1..Len(EnvNames)}

Unbound == "Unbound"

\* the values each variable takes in the checked runs (None: unset)
EnvValues(var) ==
  CASE var = "DOMAIN_UID"   -> {None, "uid1", "uid2"}
    [] var = "SERVER_NAME"  -> {None, "server1", "server2"}
    [] var = "DOMAIN_NAME"  -> {None, "domain1", "domain2"}
    [] var = "DOMAIN_HOME"  -> {None, "/shared/domain", "/u01/domain"}
    [] var = "SERVICE_NAME" -> {None, "svc1", "svc2"}

\* one entry of trace: the operation, its argument, and how it ended
\* ("ok", or the kind of exception it raised)
Ev(op, arg, out) == [op |-> op, arg |-> arg, out |-> out]

-----------------------------------------------------------------------------
(* base64.decodestring(s), which is binascii.a2b_base64(s) of the          *)
(* interpreter's library: every character is looked up in the decoding     *)
(* table, its six bits are shifted into an accumulator, a byte is emitted  *)
(* whenever eight bits are available, each '=' counts as one byte of       *)
(* padding to remove at the end, and bits left over are an error.          *)

LF == 10
CR == 13
SP == 32
BASE64_PAD == 61

\* table_a2b_base64: the six-bit value of an ASCII code, -1 for a character
\* that is not part of the alphabet; '=' is in the table with value 0
table_a2b_base64(c) ==
  IF      c >= 65 /\ c <= 90  THEN c - 65
  ELSE IF c >= 97 /\ c <= 122 THEN c - 71
  ELSE IF c >= 48 /\ c <= 57  THEN c + 4
  ELSE IF c = 43 THEN 62
  ELSE IF c = 47 THEN 63
  ELSE IF c = BASE64_PAD THEN 0
  ELSE -1

Pow2(n) == 2^n

RECURSIVE a2b_loop(_, _, _, _, _, _)
a2b_loop(ascii_data, i, leftchar, leftbits, npad, bin_data) ==
  IF i > Len(ascii_data)
  THEN [leftbits |-> leftbits, npad |-> npad, bin_data |-> bin_data]
  ELSE
    LET this_ch == ascii_data[i] IN
    IF this_ch > 127 \/ this_ch = CR \/ this_ch = LF \/ this_ch = SP
    THEN a2b_loop(ascii_data, i + 1, leftchar, leftbits, npad, bin_data)
    ELSE
      LET np  == IF this_ch = BASE64_PAD THEN npad + 1 ELSE npad
          val == table_a2b_base64(this_ch)
      IN
      IF val = -1
      THEN a2b_loop(ascii_data, i + 1, leftchar, leftbits, np, bin_data)
      ELSE
        LET lc == leftchar * 64 + val
            lb == leftbits + 6
        IN
        IF lb >= 8
        THEN a2b_loop(ascii_data, i + 1, lc % Pow2(lb - 8), lb - 8, np,
                      Append(bin_data, (lc \div Pow2(lb - 8)) % 256))
        ELSE a2b_loop(ascii_data, i + 1, lc, lb, np, bin_data)

\* a decoder that keeps the bytes the '=' padding stands for
decodestring_KeepPad(s) ==
  LET r == a2b_loop(s, 1, 0, 0, 0, <<>>) IN
  IF r.leftbits # 0
  THEN [ok |-> FALSE, data |-> <<>>]
  ELSE [ok |-> TRUE, data |-> r.bin_data]

\* [ok |-> FALSE] stands for the exception the routine raises
decodestring(s) ==
  LET r == a2b_loop(s, 1, 0, 0, 0, <<>>)
      bin_len == Len(r.bin_data) - r.npad
  IN
  IF r.leftbits # 0 \/ bin_len < 0
  THEN [ok |-> FALSE, data |-> <<>>]
  ELSE [ok |-> TRUE, data |-> SubSeq(r.bin_data, 1, bin_len)]

-----------------------------------------------------------------------------
(* The texts the key file holds in the checked runs.  The file is written  *)
(* by the introspector, outside this script: b2a_base64 is the standard    *)
(* (RFC 4648) encoding, three bytes to four characters, padded with '='.   *)

table_b2a_base64(v) ==
  IF      v < 26 THEN 65 + v
  ELSE IF v < 52 THEN 71 + v
  ELSE IF v < 62 THEN v - 4
  ELSE IF v = 62 THEN 43
  ELSE 47

RECURSIVE b2a_base64(_)
b2a_base64(bin) ==
  IF Len(bin) = 0 THEN <<>>
  ELSE IF Len(bin) = 1 THEN
    << table_b2a_base64(bin[1] \div 4),
       table_b2a_base64((bin[1] % 4) * 16),
       BASE64_PAD, BASE64_PAD >>
  ELSE IF Len(bin) = 2 THEN
    << table_b2a_base64(bin[1] \div 4),
       table_b2a_base64((bin[1] % 4) * 16 + bin[2] \div 16),
       table_b2a_base64((bin[2] % 16) * 4),
       BASE64_PAD >>
  ELSE
    << table_b2a_base64(bin[1] \div 4),
       table_b2a_base64((bin[1] % 4) * 16 + bin[2] \div 16),
       table_b2a_base64((bin[2] % 16) * 4 + bin[3] \div 64),
       table_b2a_base64(bin[3] % 64) >>
    \o b2a_base64(SubSeq(bin, 4, Len(bin)))

\* byte values the short secrets are made of
ByteVals == {0, 97, 255}

\* "secretbytes"
SecretBytes == <<115, 101, 99, 114, 101, 116, 98, 121, 116, 101, 115>>

Secrets == UNION {[1..n -> ByteVals] : n \in 0..MaxLen} \cup {SecretBytes}

\* a text that lost its last character, as a file cut short
Truncated(t) == SubSeq(t, 1, Len(t) - 1)

KeyTexts ==
  {b2a_base64(b) : b \in Secrets}
  \cup {b2a_base64(b) \o <<LF>> : b \in Secrets}
  \cup {Truncated(b2a_base64(b)) : b \in Secrets \ {<<>>}}

NoFile == [exists |-> FALSE, data |-> <<>>]
File(data) == [exists |-> TRUE, data |-> data]

\* what a previous run of the script may have left at TMP_PATH
StaleTmp == File(<<1, 2, 3, 4>>)

Init ==
  /\ environ \in {f \in [EnvVarSet -> UNION {EnvValues(v) : v \in EnvVarSet}] :
                    \A v \in EnvVarSet : f[v] \in EnvValues(v)}
  /\ keyFile \in {NoFile} \cup {File(t) : t \in KeyTexts}
  /\ tmpFile \in {NoFile, StaleTmp}
  /\ pc = "domain_uid"
  /\ domain_uid = Unbound /\ server_name = Unbound /\ domain_name = Unbound
  /\ domain_path = Unbound /\ service_name = Unbound
  /\ contents = <<>> /\ decoded = <<>>
  /\ e = None
  /\ trace = <<>>
  /\ exitCode = NotExited

-----------------------------------------------------------------------------
(* How a statement ends *)

\* an escaping exception that would leave the status at 0
Uncaught_ExitZero(events, exc) ==
  /\ trace' = trace \o events \o <<Ev("traceback", exc, "ok")>>
  /\ exitCode' = 0
  /\ pc' = "done"

\* an exception that no except clause catches ends the interpreter: it
\* prints the traceback and the process ends with status 1
Uncaught(events, exc) ==
  /\ trace' = trace \o events \o <<Ev("traceback", exc, "ok")>>
  /\ exitCode' = 1
  /\ pc' = "done"

\* the statement completes and control passes to the statement next
Goto(events, next) ==
  /\ trace' = trace \o events
  /\ pc' = next
  /\ UNCHANGED exitCode

\* getEnvVar without its sys.exit(1): the missing value is returned
getEnvVar_NoExit(var, next) == Goto(<<>>, next)

\* lines 15-20: getEnvVar(var) inside an assignment; next is the statement
\* that follows the assignment.  sys.exit(1) ends the process.
getEnvVar(var, next) ==
  LET val == environ[var] IN
  IF val = None
  THEN /\ trace' = Append(trace, Ev("print", <<"ERROR: Env var ", var, " not set.">>, "ok"))
       /\ exitCode' = 1
       /\ pc' = "done"
  ELSE Goto(<<>>, next)

\* the value the assignment binds; the name stays unbound when getEnvVar exits
Bound(var, old) == IF environ[var] = None THEN old ELSE environ[var]

\* line 52: except WLSTException, e
Catches(kind) == kind = "WLSTException"

\* an except clause that forgets its nmDisconnect()
RaiseInTry_NoCleanup(events, kind, text) ==
  IF Catches(kind)
  THEN /\ e' = text
       /\ Goto(events, "except_print")
  ELSE /\ Uncaught(events, kind)
       /\ UNCHANGED e

\* an exception raised inside the try block of lines 44-51
RaiseInTry(events, kind, text) ==
  IF Catches(kind)
  THEN /\ e' = text
       /\ Goto(events, "except_nmDisconnect")
  ELSE /\ Uncaught(events, kind)
       /\ UNCHANGED e

\* how a node manager command can end: it returns, it raises the
\* WLSTException WLST documents for a failed command, or it raises
\* something else (an error of the runtime under the command)
NmOutcomes == {"ok", "WLSTException", "Exception"}

\* domainName and domainDir given each other's value
nmConnectArgs_Swapped ==
  [ userConfigFile |-> CONFIG_PATH,
    userKeyFile    |-> TMP_PATH,
    host           |-> "127.0.0.1",
    port           |-> "5556",
    domainName     |-> domain_path,
    domainDir      |-> domain_name,
    nmType         |-> "plain" ]

\* the keyword arguments of lines 45-49
nmConnectArgs ==
  [ userConfigFile |-> CONFIG_PATH,
    userKeyFile    |-> TMP_PATH,
    host           |-> "127.0.0.1",
    port           |-> "5556",
    domainName     |-> domain_name,
    domainDir      |-> domain_path,
    nmType         |-> "plain" ]

-----------------------------------------------------------------------------
(* The statements, in the order of the script *)

\* line 22
Set_domain_uid ==
  /\ pc = "domain_uid"
  /\ getEnvVar("DOMAIN_UID", "server_name")
  /\ domain_uid' = Bound("DOMAIN_UID", domain_uid)
  /\ UNCHANGED <<environ, fileVars, dataVars, e,
                 server_name, domain_name, domain_path, service_name>>

\* line 23
Set_server_name ==
  /\ pc = "server_name"
  /\ getEnvVar("SERVER_NAME", "domain_name")
  /\ server_name' = Bound("SERVER_NAME", server_name)
  /\ UNCHANGED <<environ, fileVars, dataVars, e,
                 domain_uid, domain_name, domain_path, service_name>>

\* line 24
Set_domain_name ==
  /\ pc = "domain_name"
  /\ getEnvVar("DOMAIN_NAME", "domain_path")
  /\ domain_name' = Bound("DOMAIN_NAME", domain_name)
  /\ UNCHANGED <<environ, fileVars, dataVars, e,
                 domain_uid, server_name, domain_path, service_name>>

\* line 25
Set_domain_path ==
  /\ pc = "domain_path"
  /\ getEnvVar("DOMAIN_HOME", "service_name")
  /\ domain_path' = Bound("DOMAIN_HOME", domain_path)
  /\ UNCHANGED <<environ, fileVars, dataVars, e,
                 domain_uid, server_name, domain_name, service_name>>

\* line 26
Set_service_name ==
  /\ pc = "service_name"
  /\ getEnvVar("SERVICE_NAME", "print_info")
  /\ service_name' = Bound("SERVICE_NAME", service_name)
  /\ UNCHANGED <<environ, fileVars, dataVars, e,
                 domain_uid, server_name, domain_name, domain_path>>

\* lines 28-29
Print_info ==
  /\ pc = "print_info"
  /\ Goto(<< Ev("print", <<"domain path is ", domain_path>>, "ok"),
             Ev("print", <<"server name is ", server_name>>, "ok") >>, "open_key")
  /\ UNCHANGED <<environ, fileVars, scriptVars, dataVars, e>>

\* an open that is tried a second time after it failed
Open_key_Retry ==
  /\ pc = "open_key"
  /\ \E ok \in BOOLEAN :
       /\ ok => keyFile.exists
       /\ IF ok THEN Goto(<<Ev("open", KEY_PATH, "ok")>>, "read_key")
          ELSE IF \A i \in DOMAIN trace : trace[i].op # "open"
          THEN Goto(<<Ev("open", KEY_PATH, "IOError")>>, "open_key")
          ELSE Uncaught(<<Ev("open", KEY_PATH, "IOError")>>, "IOError")
  /\ UNCHANGED <<environ, fileVars, scriptVars, dataVars, e>>

\* line 33: open(KEY_PATH, 'r') raises IOError when the file is missing or
\* may not be read
Open_key ==
  /\ pc = "open_key"
  /\ \E ok \in BOOLEAN :
       /\ ok => keyFile.exists
       /\ IF ok THEN Goto(<<Ev("open", KEY_PATH, "ok")>>, "read_key")
                ELSE Uncaught(<<Ev("open", KEY_PATH, "IOError")>>, "IOError")
  /\ UNCHANGED <<environ, fileVars, scriptVars, dataVars, e>>

\* line 34
Read_key ==
  /\ pc = "read_key"
  /\ \E ok \in BOOLEAN :
       IF ok THEN /\ contents' = keyFile.data
                  /\ Goto(<<Ev("read", KEY_PATH, "ok")>>, "close_key")
             ELSE /\ UNCHANGED contents
                  /\ Uncaught(<<Ev("read", KEY_PATH, "IOError")>>, "IOError")
  /\ UNCHANGED <<environ, fileVars, scriptVars, decoded, e>>

\* line 35
Close_key ==
  /\ pc = "close_key"
  /\ Goto(<<Ev("close", KEY_PATH, "ok")>>, "decode")
  /\ UNCHANGED <<environ, fileVars, scriptVars, dataVars, e>>

\* line 36
Decode ==
  /\ pc = "decode"
  /\ LET r == decodestring(contents) IN
     IF r.ok THEN /\ decoded' = r.data
                  /\ Goto(<<Ev("decodestring", "contents", "ok")>>, "open_tmp")
             ELSE /\ UNCHANGED decoded
                  /\ Uncaught(<<Ev("decodestring", "contents", "binascii.Error")>>,
                              "binascii.Error")
  /\ UNCHANGED <<environ, fileVars, scriptVars, contents, e>>

\* line 38: open(TMP_PATH, 'wb') creates the file or cuts it to length 0
Open_tmp ==
  /\ pc = "open_tmp"
  /\ \E ok \in BOOLEAN :
       IF ok THEN /\ tmpFile' = File(<<>>)
                  /\ Goto(<<Ev("open", TMP_PATH, "ok")>>, "write_tmp")
             ELSE /\ UNCHANGED tmpFile
                  /\ Uncaught(<<Ev("open", TMP_PATH, "IOError")>>, "IOError")
  /\ UNCHANGED <<environ, keyFile, scriptVars, dataVars, e>>

\* line 39: a write that fails may have stored a part of the data
Write_tmp ==
  /\ pc = "write_tmp"
  /\ \/ /\ tmpFile' = File(tmpFile.data \o decoded)
        /\ Goto(<<Ev("write", TMP_PATH, "ok")>>, "close_tmp")
     \/ \E n \in 0..(Len(decoded) - 1) :
          /\ tmpFile' = File(tmpFile.data \o SubSeq(decoded, 1, n))
          /\ Uncaught(<<Ev("write", TMP_PATH, "IOError")>>, "IOError")
  /\ UNCHANGED <<environ, keyFile, scriptVars, dataVars, e>>

\* line 40
Close_tmp ==
  /\ pc = "close_tmp"
  /\ \E ok \in BOOLEAN :
       IF ok THEN Goto(<<Ev("close", TMP_PATH, "ok")>>, "nmConnect")
             ELSE Uncaught(<<Ev("close", TMP_PATH, "IOError")>>, "IOError")
  /\ UNCHANGED <<environ, fileVars, scriptVars, dataVars, e>>

\* a connect whose WLSTException is ignored: the script goes on to nmStart
NmConnect_IgnoreFailure ==
  /\ pc = "nmConnect"
  /\ \E o \in NmOutcomes :
       IF o \in {"ok", "WLSTException"}
       THEN Goto(<<Ev("nmConnect", nmConnectArgs, o)>>, "nmStart") /\ UNCHANGED e
       ELSE RaiseInTry(<<Ev("nmConnect", nmConnectArgs, o)>>, o, "nmConnect failed")
  /\ UNCHANGED <<environ, fileVars, scriptVars, dataVars>>

\* lines 45-49
NmConnect ==
  /\ pc = "nmConnect"
  /\ \E o \in NmOutcomes :
       IF o = "ok"
       THEN Goto(<<Ev("nmConnect", nmConnectArgs, "ok")>>, "nmStart") /\ UNCHANGED e
       ELSE RaiseInTry(<<Ev("nmConnect", nmConnectArgs, o)>>, o, "nmConnect failed")
  /\ UNCHANGED <<environ, fileVars, scriptVars, dataVars>>

\* line 50
NmStart ==
  /\ pc = "nmStart"
  /\ \E o \in NmOutcomes :
       IF o = "ok"
       THEN Goto(<<Ev("nmStart", server_name, "ok")>>, "nmDisconnect") /\ UNCHANGED e
       ELSE RaiseInTry(<<Ev("nmStart", server_name, o)>>, o, "nmStart failed")
  /\ UNCHANGED <<environ, fileVars, scriptVars, dataVars>>

\* line 51
NmDisconnect ==
  /\ pc = "nmDisconnect"
  /\ \E o \in NmOutcomes :
       IF o = "ok"
       THEN Goto(<<Ev("nmDisconnect", "try", "ok")>>, "exit") /\ UNCHANGED e
       ELSE RaiseInTry(<<Ev("nmDisconnect", "try", o)>>, o, "nmDisconnect failed")
  /\ UNCHANGED <<environ, fileVars, scriptVars, dataVars>>

\* line 53: the except clause's own nmDisconnect(); an exception raised
\* here is outside the try block and nothing catches it
Except_nmDisconnect ==
  /\ pc = "except_nmDisconnect"
  /\ \E o \in NmOutcomes :
       IF o = "ok"
       THEN Goto(<<Ev("nmDisconnect", "except", "ok")>>, "except_print")
       ELSE Uncaught(<<Ev("nmDisconnect", "except", o)>>, o)
  /\ UNCHANGED <<environ, fileVars, scriptVars, dataVars, e>>

\* line 54
Except_print ==
  /\ pc = "except_print"
  /\ Goto(<<Ev("print", <<e>>, "ok")>>, "exit")
  /\ UNCHANGED <<environ, fileVars, scriptVars, dataVars, e>>

\* line 56: WLST's exit() ends the process with status 0
Exit ==
  /\ pc = "exit"
  /\ trace' = Append(trace, Ev("exit", "0", "ok"))
  /\ exitCode' = 0
  /\ pc' = "done"
  /\ UNCHANGED <<environ, fileVars, scriptVars, dataVars, e>>

Next ==
  \/ Set_domain_uid \/ Set_server_name \/ Set_domain_name
  \/ Set_domain_path \/ Set_service_name
  \/ Print_info
  \/ Open_key \/ Read_key \/ Close_key
  \/ Decode
  \/ Open_tmp \/ Write_tmp \/ Close_tmp
  \/ NmConnect \/ NmStart \/ NmDisconnect
  \/ Except_nmDisconnect \/ Except_print
  \/ Exit

Spec == Init /\ [][Next]_vars

-----------------------------------------------------------------------------
(* Vocabulary of the properties *)

\* the positions of trace where operation op was performed
Idx(op) == {i \in DOMAIN trace : trace[i].op = op}

FileIdx == {i \in DOMAIN trace : trace[i].op \in {"open", "read", "write", "close"}}
NmIdx   == {i \in DOMAIN trace : trace[i].op \in {"nmConnect", "nmStart", "nmDisconnect"}}

\* the required variables that are unset
Missing == {v \in EnvVarSet : environ[v] = None}

Terminated == pc = "done"

\* the first of the five variables, in the script's order, that is unset
FirstMissing ==
  CHOOSE i \in 1..Len(EnvNames) :
    /\ environ[EnvNames[i]] = None
    /\ \A j \in 1..(i - 1) : environ[EnvNames[j]] # None

\* something happened that raises an exception no except clause catches:
\* a failed file operation or decoding (outside the try block), a node
\* manager command in the try block raising something other than a
\* WLSTException, or the except clause's own nmDisconnect() raising
EscapeCause ==
  \E i \in DOMAIN trace :
    \/ /\ trace[i].op \in {"open", "read", "write", "close", "decodestring"}
       /\ trace[i].out # "ok"
    \/ /\ trace[i].op \in {"nmConnect", "nmStart", "nmDisconnect"}
       /\ trace[i].out \notin {"ok", "WLSTException"}
    \/ /\ trace[i].op = "nmDisconnect"
       /\ trace[i].arg = "except"
       /\ trace[i].out # "ok"

\* "c2VjcmV0Ynl0ZXM=", the base64 text of "secretbytes"
ExampleKeyText ==
  <<99, 50, 86, 106, 99, 109, 86, 48, 89, 110, 108, 48, 90, 88, 77, 61>>

\* the step of the linear sequence an entry of trace belongs to
Stage(ev) ==
  CASE ev.op = "print" /\ Len(ev.arg) > 1 -> 1
    [] ev.op \in {"open", "read", "write", "close", "decodestring"} -> 2
    [] ev.op = "nmConnect" -> 3
    [] ev.op = "nmStart" -> 4
    [] ev.op = "nmDisconnect" -> 5
    [] OTHER -> 6

-----------------------------------------------------------------------------
(* C1: when one of the five variables is unset, the process ends with exit *)
(* code 1 after reading at most the variables up to the first unset one,   *)
(* and no file has been opened, read or written and no node manager        *)
(* command has been called; until it ends, the script can always take its  *)
(* next step.                                                              *)
C1_MissingVariableExits ==
  Missing # {} =>
    /\ FileIdx = {} /\ NmIdx = {}
    /\ tmpFile \in {NoFile, StaleTmp}
    /\ IF Terminated
       THEN exitCode = 1
       ELSE /\ exitCode = NotExited
            /\ pc \in {EnvPc[i] : i \in 1..FirstMissing}
            /\ ENABLED Next

\* the last variable read is the one unset, and the process has ended
C1_Witness ==
  /\ Terminated /\ exitCode = 1
  /\ Missing = {"SERVICE_NAME"}

(* C2 as stated: the exit code is 1 exactly when a variable is missing and *)
(* 0 in every terminating run where all five are set.                      *)
C2_Original ==
  Terminated =>
    /\ exitCode = 1 <=> Missing # {}
    /\ Missing = {} => exitCode = 0

(* C2, amended: a missing variable gives exit code 1; with all five set    *)
(* the exit code is 0 exactly when no exception escapes the script, that   *)
(* is when every file operation and the decoding succeed, every exception  *)
(* raised in the try block is a WLSTException, and the except clause's     *)
(* nmDisconnect() returns.                                                 *)
C2_ExitCode ==
  Terminated =>
    /\ exitCode # NotExited
    /\ Missing # {} => exitCode = 1
    /\ Missing = {} => (exitCode = 0 <=> ~EscapeCause)

\* a run that caught a WLSTException and ended with status 0
C2_Witness ==
  /\ Terminated /\ Missing = {} /\ exitCode = 0
  /\ \E i \in Idx("nmConnect") : trace[i].out = "WLSTException"

(* C3 as stated: with all variables set, every file operation succeeding   *)
(* and nmConnect and nmStart succeeding, nmStart is called exactly once    *)
(* with SERVER_NAME, nmDisconnect exactly once, nmStart first.             *)
C3_Original ==
  ( /\ Terminated /\ Missing = {}
    /\ \A i \in FileIdx : trace[i].out = "ok"
    /\ \E i \in Idx("nmConnect") : trace[i].out = "ok"
    /\ \E i \in Idx("nmStart") : trace[i].out = "ok" )
  =>
    /\ Cardinality(Idx("nmStart")) = 1
    /\ \A i \in Idx("nmStart") : trace[i].arg = environ["SERVER_NAME"]
    /\ Cardinality(Idx("nmDisconnect")) = 1
    /\ \A i \in Idx("nmStart") : \A j \in Idx("nmDisconnect") : i < j

(* C4 as stated: once nmConnect has been called, nmDisconnect is attempted *)
(* before the process ends: right after a successful nmStart, and right    *)
(* after nmConnect or nmStart raised, whatever the exception.              *)
C4_Original ==
  Terminated =>
    \A i \in Idx("nmConnect") \cup Idx("nmStart") :
      (trace[i].out # "ok" \/ trace[i].op = "nmStart")
        => trace[i + 1].op = "nmDisconnect"

(* C4, amended: nmDisconnect is attempted right after a successful nmStart *)
(* and right after nmConnect or nmStart raised a WLSTException, before     *)
(* anything is printed; an exception of another kind is not caught: the    *)
(* process ends on it without any nmDisconnect.                            *)
C4_DisconnectAttempted ==
  Terminated =>
    \A i \in Idx("nmConnect") \cup Idx("nmStart") :
      /\ (trace[i].op = "nmStart" /\ trace[i].out = "ok")
           => (trace[i + 1].op = "nmDisconnect" /\ trace[i + 1].arg = "try")
      /\ trace[i].out = "WLSTException"
           => (trace[i + 1].op = "nmDisconnect" /\ trace[i + 1].arg = "except")
      /\ trace[i].out \notin {"ok", "WLSTException"}
           => (trace[i + 1].op = "traceback" /\ Idx("nmDisconnect") = {})

\* nmStart raised a WLSTException and the cleanup nmDisconnect followed
C4_Witness ==
  /\ Terminated
  /\ \E i \in Idx("nmStart") :
       /\ trace[i].out = "WLSTException"
       /\ trace[i + 1].op = "nmDisconnect"

(* C5 as stated: when nmConnect or nmStart fails (raises the WLSTException *)
(* of a failed command), the process exits with code 0 and the caught      *)
(* exception's text is printed after the nmDisconnect attempt and before   *)
(* the exit.                                                               *)
C5_Original ==
  Terminated =>
    \A i \in Idx("nmConnect") \cup Idx("nmStart") :
      trace[i].out = "WLSTException" =>
        /\ exitCode = 0
        /\ trace[Len(trace)].op = "exit"
        /\ \E j, k \in DOMAIN trace :
             /\ i < j /\ j < k /\ k < Len(trace)
             /\ trace[j].op = "nmDisconnect"
             /\ trace[k].op = "print" /\ trace[k].arg = <<e>>

(* C6: the script never changes the key file, and when the key file holds  *)
(* the base64 text of a secret (with or without a final newline), the      *)
(* temporary file holds exactly that secret's bytes once it is closed;     *)
(* outside the open and the write the temporary file does not change.      *)
C6_DecodedFileIsBase64Decoding ==
  [][ /\ keyFile' = keyFile
      /\ (pc = "close_tmp" /\ pc' = "nmConnect") =>
           \A b \in Secrets :
             (keyFile.exists /\ keyFile.data \in {b2a_base64(b), b2a_base64(b) \o <<LF>>})
               => tmpFile' = File(b)
      /\ pc \notin {"open_tmp", "write_tmp"} => tmpFile' = tmpFile
    ]_vars

\* the example of the specification: "c2VjcmV0Ynl0ZXM=" gives "secretbytes"
C6_Witness ==
  /\ pc = "nmConnect"
  /\ keyFile = File(ExampleKeyText)
  /\ tmpFile = File(SecretBytes)

(* C7: nmConnect is called at most once, with host 127.0.0.1, port 5556,   *)
(* nmType plain, the two fixed file paths, domainName the value of         *)
(* DOMAIN_NAME and domainDir the value of DOMAIN_HOME; nmStart is called   *)
(* with the value of SERVER_NAME.  The arguments are therefore the same    *)
(* for every value of DOMAIN_UID and SERVICE_NAME.                         *)
C7_CallArguments ==
  /\ Cardinality(Idx("nmConnect")) <= 1
  /\ \A i \in Idx("nmConnect") :
       trace[i].arg =
         [ host           |-> "127.0.0.1",
           port           |-> "5556",
           nmType         |-> "plain",
           userKeyFile    |-> "/tmp/userKeyNodeManager.secure.bin",
           userConfigFile |-> "/weblogic-operator/introspector/userConfigNodeManager.secure",
           domainName     |-> environ["DOMAIN_NAME"],
           domainDir      |-> environ["DOMAIN_HOME"] ]
  /\ \A i \in Idx("nmStart") : trace[i].arg = environ["SERVER_NAME"]

\* the scenario of the specification, with SERVICE_NAME and DOMAIN_UID at
\* their second values
C7_Witness ==
  /\ Idx("nmConnect") # {} /\ Idx("nmStart") # {}
  /\ environ["DOMAIN_NAME"] = "domain1"
  /\ environ["DOMAIN_HOME"] = "/shared/domain"
  /\ environ["SERVER_NAME"] = "server1"
  /\ environ["DOMAIN_UID"] = "uid2"
  /\ environ["SERVICE_NAME"] = "svc2"

(* C8: each file is opened at most once, and a file operation that fails   *)
(* is the script's last operation: the exception ends the process with a   *)
(* traceback and a non-zero status, and no node manager command has been   *)
(* or will be called.                                                      *)
C8_FileFailureSurfaced ==
  /\ \A path \in {KEY_PATH, TMP_PATH} :
       Cardinality({i \in Idx("open") : trace[i].arg = path}) <= 1
  /\ \A i \in FileIdx :
       trace[i].out # "ok" =>
         /\ NmIdx = {}
         /\ Terminated /\ exitCode \notin {0, NotExited}
         /\ Len(trace) = i + 1
         /\ trace[i + 1].op = "traceback"

\* the write to the temporary file failed
C8_Witness ==
  /\ Terminated
  /\ \E i \in Idx("write") : trace[i].out # "ok"

(* C9: the operations happen in the order of the steps; when nmConnect is  *)
(* called the five variables are bound to their values and the temporary   *)
(* file has been written with the decoded bytes and closed; nmStart is     *)
(* called only after an nmConnect that returned, never after one that      *)
(* raised.                                                                 *)
C9_StepOrder ==
  /\ \A i, j \in DOMAIN trace : i < j => Stage(trace[i]) <= Stage(trace[j])
  /\ \A i \in Idx("nmConnect") :
       /\ domain_uid = environ["DOMAIN_UID"] /\ server_name = environ["SERVER_NAME"]
       /\ domain_name = environ["DOMAIN_NAME"] /\ domain_path = environ["DOMAIN_HOME"]
       /\ service_name = environ["SERVICE_NAME"]
       /\ Missing = {}
       /\ \E w, c \in 1..(i - 1) :
            /\ w < c
            /\ trace[w] = Ev("write", TMP_PATH, "ok")
            /\ trace[c] = Ev("close", TMP_PATH, "ok")
       /\ tmpFile = File(decoded)
  /\ \A j \in Idx("nmStart") :
       /\ \E i \in Idx("nmConnect") : i < j /\ trace[i].out = "ok"
       /\ \A i \in Idx("nmConnect") : trace[i].out = "ok"

\* nmStart has been called
C9_Witness ==
  \E j \in Idx("nmStart") : trace[j].out = "ok"

(* C10 as stated: nmConnect, nmStart and nmDisconnect are each called at   *)
(* most once, whatever the outcome of each call, and the temporary file is *)
(* written at most once and, once created, never deleted.                  *)
C10_Original ==
  /\ Cardinality(Idx("nmConnect")) <= 1
  /\ Cardinality(Idx("nmStart")) <= 1
  /\ Cardinality(Idx("nmDisconnect")) <= 1
  /\ Cardinality(Idx("write")) <= 1
  /\ (\E i \in Idx("open") : trace[i] = Ev("open", TMP_PATH, "ok")) => tmpFile.exists

====
